---------------------------- MODULE Spec2Model ----------------------------
(***************************************************************************)
(* State-machine model of the CSV tools of src/main.py: preview_csv,       *)
(* describe_csv and filter_equals, with the path check _validate_path and  *)
(* the csv.DictReader they iterate.                                        *)
(*                                                                         *)
(* A Python str is a sequence of one-character strings, so that strip()    *)
(* and float() are computed on the characters.  A float is a record        *)
(* [k, m, e]: k = "fin" is the number m * 10^e in lowest form, k = "inf"   *)
(* is m * infinity, k = "nan" is NaN and k = "none" stands for both        *)
(* Python's None and a ValueError of float().  The decimals of this model  *)
(* are a few digits long, for which decimal and binary64 comparison agree. *)
(***************************************************************************)
EXTENDS Integers, Sequences, FiniteSets, TLC

VARIABLES
    file,         \* the CSV file on disk: [header, lines]
    pc,           \* position in the running tool
    op,           \* the tool that was called
    filename,     \* argument of the three tools
    n,            \* preview_csv: n
    sample_rows,  \* describe_csv: sample_rows
    column,       \* filter_equals: column
    value,        \* filter_equals: value
    limit,        \* filter_equals: limit
    opened,       \* TRUE once path.open() has been executed
    cursor,       \* the reader: data lines of the file consumed so far
    pulled,       \* the reader: records it has yielded so far
    i,            \* enumerate(reader) index of the last record pulled, plus 1
    rows,         \* preview_csv: rows
    stats,        \* describe_csv: stats
    row_count,    \* describe_csv: row_count
    out_rows,     \* filter_equals: out_rows
    error,        \* the exception raised, "" when none
    errcols,      \* the column list carried by the ValueError message
    result        \* the value returned, NoResult when none

vars == <<file, pc, op, filename, n, sample_rows, column, value, limit, opened,
          cursor, pulled, i, rows, stats, row_count, out_rows, error, errcols,
          result>>

-----------------------------------------------------------------------------
(* Bounds of the model. *)

MaxRows == 3      \* data lines in the file
MaxCount == 2     \* largest n, sample_rows and limit passed

-----------------------------------------------------------------------------
(* Python values. *)

None == <<"None">>                       \* None where a str is expected
NoFloat == [k |-> "none", m |-> 0, e |-> 0]
NaN == [k |-> "nan", m |-> 0, e |-> 0]
Inf(sign) == [k |-> "inf", m |-> sign, e |-> 0]

Whitespace == {" ", "\t", "\n", "\r"}
DigitChars == <<"0", "1", "2", "3", "4", "5", "6", "7", "8", "9">>
IsDigit(c) == \E d \in 1..10 : DigitChars[d] = c
DigitVal(c) == (CHOOSE d \in 1..10 : DigitChars[d] = c) - 1

Lower(c) ==
    CASE c = "N" -> "n" [] c = "A" -> "a" [] c = "I" -> "i" [] c = "F" -> "f"
      [] c = "T" -> "t" [] c = "Y" -> "y" [] c = "E" -> "e" [] OTHER -> c

RECURSIVE LStrip(_)
LStrip(s) == IF s # <<>> /\ Head(s) \in Whitespace THEN LStrip(Tail(s)) ELSE s

RECURSIVE RStrip(_)
RStrip(s) ==
    IF s # <<>> /\ s[Len(s)] \in Whitespace
    THEN RStrip(SubSeq(s, 1, Len(s) - 1)) ELSE s

Strip(s) == RStrip(LStrip(s))

RECURSIVE Pow10(_)
Pow10(k) == IF k <= 0 THEN 1 ELSE 10 * Pow10(k - 1)

RECURSIVE Norm(_, _)
Norm(m, e) ==
    IF m = 0 THEN [k |-> "fin", m |-> 0, e |-> 0]
    ELSE IF m % 10 = 0 THEN Norm(m \div 10, e + 1)
    ELSE [k |-> "fin", m |-> m, e |-> e]

AllDigits(s) == \A p \in 1..Len(s) : IsDigit(s[p])

RECURSIVE DigitsVal(_)
DigitsVal(s) ==
    IF s = <<>> THEN 0
    ELSE 10 * DigitsVal(SubSeq(s, 1, Len(s) - 1)) + DigitVal(s[Len(s)])

IndexOf(s, c) ==
    IF \E p \in 1..Len(s) : s[p] = c
    THEN CHOOSE p \in 1..Len(s) : s[p] = c /\ \A q \in 1..(p - 1) : s[q] # c
    ELSE 0

(* The exponent part of a float literal: an optional sign and digits. *)
ExpOk(s) ==
    LET d == IF s # <<>> /\ Head(s) \in {"+", "-"} THEN Tail(s) ELSE s
    IN  d # <<>> /\ AllDigits(d)
ExpVal(s) ==
    IF Head(s) = "-" THEN 0 - DigitsVal(Tail(s))
    ELSE IF Head(s) = "+" THEN DigitsVal(Tail(s)) ELSE DigitsVal(s)

(* The mantissa part: digits with at most one point and at least one digit. *)
MantOk(s) ==
    LET p == IndexOf(s, ".")
        ip == IF p = 0 THEN s ELSE SubSeq(s, 1, p - 1)
        fp == IF p = 0 THEN <<>> ELSE SubSeq(s, p + 1, Len(s))
    IN  AllDigits(ip) /\ AllDigits(fp) /\ Len(ip) + Len(fp) > 0

(* float(s): whitespace is stripped, then an optional sign and nan, inf,   *)
(* infinity (any case) or a decimal literal with an optional exponent;     *)
(* anything else is a ValueError, here NoFloat.                            *)
ParseFloat(s) ==
    LET t == Strip(s)
        neg == t # <<>> /\ Head(t) = "-"
        u == IF t # <<>> /\ Head(t) \in {"+", "-"} THEN Tail(t) ELSE t
        b == [p \in 1..Len(u) |-> Lower(u[p])]
        x == IndexOf(b, "e")
        mant == IF x = 0 THEN b ELSE SubSeq(b, 1, x - 1)
        ex == IF x = 0 THEN <<>> ELSE SubSeq(b, x + 1, Len(b))
        pt == IndexOf(mant, ".")
        ip == IF pt = 0 THEN mant ELSE SubSeq(mant, 1, pt - 1)
        fp == IF pt = 0 THEN <<>> ELSE SubSeq(mant, pt + 1, Len(mant))
        mag == DigitsVal(ip \o fp)
        ev == (IF x = 0 THEN 0 ELSE ExpVal(ex)) - Len(fp)
    IN  IF b = <<"n", "a", "n">> THEN NaN
        ELSE IF b \in {<<"i", "n", "f">>, <<"i", "n", "f", "i", "n", "i", "t", "y">>}
        THEN Inf(IF neg THEN -1 ELSE 1)
        ELSE IF MantOk(mant) /\ (x = 0 \/ ExpOk(ex))
        THEN Norm(IF neg THEN 0 - mag ELSE mag, ev)
        ELSE NoFloat

IsFloat(x) == x.k # "none"

(* x == y and x < y of two floats (IEEE: NaN compares false). *)
FloatEq(x, y) == x.k # "nan" /\ y.k # "nan" /\ x = y
FloatLt(x, y) ==
    LET lo == IF x.e < y.e THEN x.e ELSE y.e
    IN  CASE x.k = "nan" \/ y.k = "nan" -> FALSE
          [] x.k = "inf" /\ y.k = "inf" -> x.m < y.m
          [] x.k = "inf" -> x.m < 0
          [] y.k = "inf" -> y.m > 0
          [] OTHER -> x.m * Pow10(x.e - lo) < y.m * Pow10(y.e - lo)

-----------------------------------------------------------------------------
(* The file system seen through (DATA_DIR / filename).resolve(). *)

FileNames == {"t.csv", "missing.csv", "sub", "../out.csv", "../gone.csv"}

(* The resolved path of a file name: whether it exists, whether it is a    *)
(* regular file, and whether DATA_DIR is among its parents.                *)
Resolve(fn) ==
    [exists |-> fn \in {"t.csv", "sub", "../out.csv"},
     is_file |-> fn \in {"t.csv", "../out.csv"},
     in_data_dir |-> fn \in {"t.csv", "missing.csv", "sub"}]

NotFound == "FileNotFoundError"
AccessDenied == "PermissionError"
InvalidArgument == "ValueError"

(* _validate_path without the test of the parents. *)
ValidatePathNoRootCheck(path) ==
    IF ~path.exists \/ ~path.is_file THEN NotFound ELSE ""
(* _validate_path: the exception it raises, "" when it returns. *)
ValidatePath(path) ==
    IF ~path.exists \/ ~path.is_file THEN NotFound
    ELSE IF ~path.in_data_dir THEN AccessDenied
    ELSE ""

-----------------------------------------------------------------------------
(* The CSV file and csv.DictReader. *)

Range(s) == {s[p] : p \in DOMAIN s}

(* The lines a file may hold after its header, as the cells csv.reader     *)
(* splits them into; <<>> is a blank line.                                 *)
RawRows ==
    { <<>>,
      << <<"5", " ">> >>,
      << <<"5", ".", "0">>, <<"7">> >>,
      << <<"7">> >>,
      << <<"x">>, <<"5">> >>,
      << <<"n", "a", "n">> >>,
      << <<>>, <<"x">> >> }

(* The header line as csv.reader splits it; <<>> is a file that is empty   *)
(* or begins with a blank line, for which fieldnames is empty.             *)
Headers == { <<>>, <<"name">>, <<"name", "val">> }

Files ==
    {[header |-> h, lines |-> l] :
        h \in Headers, l \in UNION {[1..k -> RawRows] : k \in 0..MaxRows}}

(* reader.fieldnames or [] *)
FieldNames(f) == f.header

(* The dict DictReader builds from a line: missing cells are None, extra   *)
(* cells go under the restkey.                                             *)
MakeRow(cols, raw) ==
    [fields |-> [c \in Range(cols) |->
                    LET p == CHOOSE q \in 1..Len(cols) : cols[q] = c
                    IN  IF p <= Len(raw) THEN raw[p] ELSE None],
     rest |-> IF Len(raw) > Len(cols)
              THEN SubSeq(raw, Len(cols) + 1, Len(raw)) ELSE <<>>]

(* row.get(c, "") *)
RowGet(row, c) == IF c \in DOMAIN row.fields THEN row.fields[c] ELSE <<>>

(* The line DictReader yields next from position cur: blank lines are      *)
(* skipped; 0 when the file is exhausted (StopIteration).                  *)
NextLine(f, cur) ==
    IF \E j \in (cur + 1)..Len(f.lines) : f.lines[j] # <<>>
    THEN CHOOSE j \in (cur + 1)..Len(f.lines) :
            /\ f.lines[j] # <<>>
            /\ \A q \in (cur + 1)..(j - 1) : f.lines[q] = <<>>
    ELSE 0

(* Every record of the file, in file order. *)
Records(f) ==
    LET keep == SelectSeq([j \in 1..Len(f.lines) |-> j],
                          LAMBDA j : f.lines[j] # <<>>)
    IN  [q \in 1..Len(keep) |-> MakeRow(FieldNames(f), f.lines[keep[q]])]


-----------------------------------------------------------------------------
(* describe_csv: the per-column accumulator and the summary. *)

NewStat == [nulls |-> 0, non_nulls |-> 0, numeric |-> TRUE,
            min |-> NoFloat, max |-> NoFloat]

(* UpdateStat with the null cells skipped instead of counted. *)
UpdateStatSkipNull(s, val) ==
    IF val = None \/ val = <<>>
    THEN s
    ELSE LET x == ParseFloat(val)
         IN  IF IsFloat(x)
             THEN [s EXCEPT !.non_nulls = @ + 1,
                            !.min = IF s.min = NoFloat \/ FloatLt(x, s.min)
                                    THEN x ELSE @,
                            !.max = IF s.max = NoFloat \/ FloatLt(s.max, x)
                                    THEN x ELSE @]
             ELSE [s EXCEPT !.non_nulls = @ + 1, !.numeric = FALSE]

(* Lines 77-88: one cell folded into the accumulator of its column. *)
UpdateStat(s, val) ==
    IF val = None \/ val = <<>>
    THEN [s EXCEPT !.nulls = @ + 1]
    ELSE LET x == ParseFloat(val)
         IN  IF IsFloat(x)
             THEN [s EXCEPT !.non_nulls = @ + 1,
                            !.min = IF s.min = NoFloat \/ FloatLt(x, s.min)
                                    THEN x ELSE @,
                            !.max = IF s.max = NoFloat \/ FloatLt(s.max, x)
                                    THEN x ELSE @]
             ELSE [s EXCEPT !.non_nulls = @ + 1, !.numeric = FALSE]

(* Lines 92-99: the summary of one column. *)
InferredType(s) ==
    IF s.numeric /\ s.non_nulls > 0 THEN "numeric" ELSE "text_or_mixed"

Summary(s) ==
    [type |-> InferredType(s), nulls |-> s.nulls, non_nulls |-> s.non_nulls,
     min |-> IF InferredType(s) = "numeric" THEN s.min ELSE NoFloat,
     max |-> IF InferredType(s) = "numeric" THEN s.max ELSE NoFloat]

(* DescribeBreak testing the index one record late. *)
DescribeBreakOffByOne(idx, k) == idx > k

(* Line 72: the test that ends the scan. *)
DescribeBreak(idx, k) == idx >= k

-----------------------------------------------------------------------------
(* preview_csv *)

(* PreviewBreak testing the index one record late. *)
PreviewBreakOffByOne(idx, k) == idx > k

(* Line 46: the test that ends the preview. *)
PreviewBreak(idx, k) == idx >= k

-----------------------------------------------------------------------------
(* filter_equals *)

(* Lines 114-118: the target in its textual and numeric forms. *)
ValueStr(v) == Strip(IF v = None THEN <<>> ELSE v)
ValueNum(v) == ParseFloat(ValueStr(v))

(* Line 129 *)
CellStr(cell) == Strip(IF cell = None THEN <<>> ELSE cell)

(* CellMatches with the string comparison made only for a target that is  *)
(* not numeric.                                                            *)
CellMatchesNoFallback(cell, v) ==
    LET cell_str == Strip(IF cell = None THEN <<>> ELSE cell)
        value_str == Strip(IF v = None THEN <<>> ELSE v)
        value_num == ParseFloat(value_str)
        cell_num == ParseFloat(cell_str)
    IN  IF value_num # NoFloat
        THEN IsFloat(cell_num) /\ FloatEq(cell_num, value_num)
        ELSE cell_str = value_str

(* Lines 131-141: numeric comparison first, string comparison when it did  *)
(* not match.                                                              *)
CellMatches(cell, v) ==
    LET cell_str == CellStr(cell)
        value_num == ValueNum(v)
        cell_num == ParseFloat(cell_str)
        match1 == IF value_num # NoFloat
                  THEN IsFloat(cell_num) /\ FloatEq(cell_num, value_num)
                  ELSE FALSE
    IN  IF ~match1 THEN cell_str = ValueStr(v) ELSE match1

(* ColumnMissing with the lookup made only in an empty header. *)
ColumnMissingUnchecked(col, cols) == cols = <<>>

(* Line 124 *)
ColumnMissing(col, cols) == col \notin Range(cols)

(* LimitReached testing the length one match late. *)
LimitReachedOffByOne(len, lim) == len > lim

(* Line 145: the test that ends the filter after a match is appended. *)
LimitReached(len, lim) == len >= lim

-----------------------------------------------------------------------------
(* Inputs. *)

Counts == (-1)..MaxCount
Columns == {"name", "val"}
Values == { <<"5", " ">>, <<"x">>, <<"n", "a", "n">>, <<>> }

NoResult == [none |-> TRUE]

Init ==
    /\ file \in Files
    /\ pc = "idle"
    /\ op = ""
    /\ filename = ""
    /\ n = 0
    /\ sample_rows = 0
    /\ column = ""
    /\ value = <<>>
    /\ limit = 0
    /\ opened = FALSE
    /\ cursor = 0
    /\ pulled = 0
    /\ i = 0
    /\ rows = <<>>
    /\ stats = <<>>
    /\ row_count = 0
    /\ out_rows = <<>>
    /\ error = ""
    /\ errcols = <<>>
    /\ result = NoResult

(* A tool is called: lines 39, 59, 110 resolve the path. *)
CallPreview ==
    /\ pc = "idle"
    /\ \E fn \in FileNames, k \in Counts :
        /\ filename' = fn
        /\ n' = k
    /\ op' = "preview"
    /\ pc' = "validate"
    /\ UNCHANGED <<file, sample_rows, column, value, limit, opened, cursor,
                   pulled, i, rows, stats, row_count, out_rows, error, errcols,
                   result>>

CallDescribe ==
    /\ pc = "idle"
    /\ \E fn \in FileNames, k \in Counts :
        /\ filename' = fn
        /\ sample_rows' = k
    /\ op' = "describe"
    /\ pc' = "validate"
    /\ UNCHANGED <<file, n, column, value, limit, opened, cursor, pulled, i,
                   rows, stats, row_count, out_rows, error, errcols, result>>

CallFilter ==
    /\ pc = "idle"
    /\ \E fn \in FileNames, c \in Columns, v \in Values, k \in Counts :
        /\ filename' = fn
        /\ column' = c
        /\ value' = v
        /\ limit' = k
    /\ op' = "filter"
    /\ pc' = "validate"
    /\ UNCHANGED <<file, n, sample_rows, opened, cursor, pulled, i, rows,
                   stats, row_count, out_rows, error, errcols, result>>

(* Lines 40, 60, 111: _validate_path(path). *)
Validate ==
    /\ pc = "validate"
    /\ error' = ValidatePath(Resolve(filename))
    /\ pc' = IF error' = "" THEN "open" ELSE "raised"
    /\ UNCHANGED <<file, op, filename, n, sample_rows, column, value, limit,
                   opened, cursor, pulled, i, rows, stats, row_count, out_rows,
                   errcols, result>>

(* Lines 41-44: the file is opened and the header read. *)
PreviewOpen ==
    /\ pc = "open" /\ op = "preview"
    /\ opened' = TRUE
    /\ rows' = <<>>
    /\ pc' = "loop"
    /\ UNCHANGED <<file, op, filename, n, sample_rows, column, value, limit,
                   cursor, pulled, i, stats, row_count, out_rows, error,
                   errcols, result>>

PreviewResult(rs) ==
    [columns |-> FieldNames(file), rows |-> rs, count_returned |-> Len(rs)]

(* Lines 45-48: one record is pulled and appended. *)
PreviewStep ==
    /\ pc = "loop" /\ op = "preview"
    /\ NextLine(file, cursor) # 0
    /\ ~PreviewBreak(i, n)
    /\ cursor' = NextLine(file, cursor)
    /\ pulled' = pulled + 1
    /\ i' = i + 1
    /\ rows' = Append(rows, MakeRow(FieldNames(file), file.lines[cursor']))
    /\ UNCHANGED <<file, pc, op, filename, n, sample_rows, column, value, limit,
                   opened, stats, row_count, out_rows, error, errcols, result>>

(* Lines 45-49: the loop ends, by break on a pulled record or because the  *)
(* reader is exhausted, and the result is returned.                        *)
PreviewReturn ==
    /\ pc = "loop" /\ op = "preview"
    /\ NextLine(file, cursor) = 0 \/ PreviewBreak(i, n)
    /\ IF NextLine(file, cursor) = 0
       THEN cursor' = Len(file.lines) /\ pulled' = pulled
       ELSE cursor' = NextLine(file, cursor) /\ pulled' = pulled + 1
    /\ result' = PreviewResult(rows)
    /\ pc' = "done"
    /\ UNCHANGED <<file, op, filename, n, sample_rows, column, value, limit,
                   opened, i, rows, stats, row_count, out_rows, error, errcols>>


(* Lines 62-70: the file is opened, the header read, the accumulators made. *)
DescribeOpen ==
    /\ pc = "open" /\ op = "describe"
    /\ opened' = TRUE
    /\ stats' = [c \in Range(FieldNames(file)) |-> NewStat]
    /\ row_count' = 0
    /\ pc' = "loop"
    /\ UNCHANGED <<file, op, filename, n, sample_rows, column, value, limit,
                   cursor, pulled, i, rows, out_rows, error, errcols, result>>

DescribeResult(st, count) ==
    [columns |-> FieldNames(file),
     summary |-> [c \in DOMAIN st |-> Summary(st[c])],
     sampled_rows |-> count]

(* Lines 71-88: one record is pulled and folded into every column. *)
DescribeStep ==
    /\ pc = "loop" /\ op = "describe"
    /\ NextLine(file, cursor) # 0
    /\ ~DescribeBreak(i, sample_rows)
    /\ cursor' = NextLine(file, cursor)
    /\ pulled' = pulled + 1
    /\ i' = i + 1
    /\ row_count' = row_count + 1
    /\ LET row == MakeRow(FieldNames(file), file.lines[cursor'])
       IN  stats' = [c \in DOMAIN stats |-> UpdateStat(stats[c], RowGet(row, c))]
    /\ UNCHANGED <<file, pc, op, filename, n, sample_rows, column, value, limit,
                   opened, rows, out_rows, error, errcols, result>>

(* Lines 71-73, 90-102: the loop ends, by break on a pulled record or      *)
(* because the reader is exhausted, and the summary is returned.           *)
DescribeReturn ==
    /\ pc = "loop" /\ op = "describe"
    /\ NextLine(file, cursor) = 0 \/ DescribeBreak(i, sample_rows)
    /\ IF NextLine(file, cursor) = 0
       THEN cursor' = Len(file.lines) /\ pulled' = pulled
       ELSE cursor' = NextLine(file, cursor) /\ pulled' = pulled + 1
    /\ result' = DescribeResult(stats, row_count)
    /\ pc' = "done"
    /\ UNCHANGED <<file, op, filename, n, sample_rows, column, value, limit,
                   opened, i, rows, stats, row_count, out_rows, error, errcols>>

(* Lines 113-125: the target is normalised, the file opened, the header    *)
(* read and the column looked up.                                          *)
FilterOpen ==
    /\ pc = "open" /\ op = "filter"
    /\ opened' = TRUE
    /\ out_rows' = <<>>
    /\ IF ColumnMissing(column, FieldNames(file))
       THEN /\ error' = InvalidArgument
            /\ errcols' = FieldNames(file)
            /\ pc' = "raised"
       ELSE /\ pc' = "loop"
            /\ UNCHANGED <<error, errcols>>
    /\ UNCHANGED <<file, op, filename, n, sample_rows, column, value, limit,
                   cursor, pulled, i, rows, stats, row_count, result>>

FilterResult(rs) ==
    [columns |-> FieldNames(file), rows |-> rs, count_returned |-> Len(rs)]

(* Lines 127-146 (and 148 on break): one record is pulled and matched; a   *)
(* match is appended, and the loop breaks when the limit is reached.       *)
FilterStep ==
    /\ pc = "loop" /\ op = "filter"
    /\ NextLine(file, cursor) # 0
    /\ cursor' = NextLine(file, cursor)
    /\ pulled' = pulled + 1
    /\ LET row == MakeRow(FieldNames(file), file.lines[cursor'])
       IN  IF CellMatches(RowGet(row, column), value)
           THEN /\ out_rows' = Append(out_rows, row)
                /\ IF LimitReached(Len(out_rows'), limit)
                   THEN pc' = "done" /\ result' = FilterResult(out_rows')
                   ELSE UNCHANGED <<pc, result>>
           ELSE UNCHANGED <<out_rows, pc, result>>
    /\ UNCHANGED <<file, op, filename, n, sample_rows, column, value, limit,
                   opened, i, rows, stats, row_count, error, errcols>>

(* Lines 127, 148: the reader is exhausted and the result returned. *)
FilterReturn ==
    /\ pc = "loop" /\ op = "filter"
    /\ NextLine(file, cursor) = 0
    /\ cursor' = Len(file.lines)
    /\ result' = FilterResult(out_rows)
    /\ pc' = "done"
    /\ UNCHANGED <<file, op, filename, n, sample_rows, column, value, limit,
                   opened, pulled, i, rows, stats, row_count, out_rows, error,
                   errcols>>

NextPreview == CallPreview \/ Validate \/ PreviewOpen \/ PreviewStep \/ PreviewReturn
NextDescribe ==
    CallDescribe \/ Validate \/ DescribeOpen \/ DescribeStep \/ DescribeReturn
NextFilter == CallFilter \/ Validate \/ FilterOpen \/ FilterStep \/ FilterReturn

Next ==
    \/ CallPreview \/ CallDescribe \/ CallFilter
    \/ Validate
    \/ PreviewOpen \/ PreviewStep \/ PreviewReturn
    \/ DescribeOpen \/ DescribeStep \/ DescribeReturn
    \/ FilterOpen \/ FilterStep \/ FilterReturn

Spec == Init /\ [][Next]_vars
SpecPreview == Init /\ [][NextPreview]_vars
SpecDescribe == Init /\ [][NextDescribe]_vars
SpecFilter == Init /\ [][NextFilter]_vars


-----------------------------------------------------------------------------
(* What the properties below are stated in terms of. *)

Min(a, b) == IF a < b THEN a ELSE b

FileOk(fn) ==
    Resolve(fn).exists /\ Resolve(fn).is_file /\ Resolve(fn).in_data_dir

TotalDataRows == Len(Records(file))

(* The match predicate as the specification words it: the trimmed target   *)
(* and the trimmed cell (a null cell as the empty string) both parse as    *)
(* numbers and are numerically equal, or they are equal as strings.        *)
MatchPredicate(cell, v) ==
    LET cs == Strip(IF cell = None THEN <<>> ELSE cell)
        vs == Strip(v)
    IN  \/ /\ IsFloat(ParseFloat(vs))
           /\ IsFloat(ParseFloat(cs))
           /\ FloatEq(ParseFloat(cs), ParseFloat(vs))
        \/ cs = vs

RowMatches(r) == MatchPredicate(r.fields[column], value)

(* The rows of the file that satisfy the match predicate, in file order. *)
MatchingRows == SelectSeq(Records(file), RowMatches)

Prefix(s, k) == SubSeq(s, 1, Min(k, Len(s)))

(* The non-null cells of column c among the first k records. *)
ScannedCells(c, k) ==
    LET col == [q \in 1..Min(k, TotalDataRows) |-> Records(file)[q].fields[c]]
    IN  SelectSeq(col, LAMBDA v : v # None /\ v # <<>>)

FloatLe(x, y) == FloatLt(x, y) \/ FloatEq(x, y)

-----------------------------------------------------------------------------
C2_MatchRule ==
    (op = "filter" /\ pc \in {"loop", "done"}) =>
        out_rows = SelectSeq(Prefix(Records(file), pulled), RowMatches)

(* A numeric target matched a cell that differs from it as a string, and   *)
(* a scanned record was left out.                                          *)
C2_Witness ==
    /\ op = "filter" /\ pc = "done"
    /\ IsFloat(ValueNum(value))
    /\ \E q \in 1..Len(out_rows) :
          CellStr(out_rows[q].fields[column]) # ValueStr(value)
    /\ Len(out_rows) < pulled

(* C3: in describe_csv's output a column is "numeric" if and only if it    *)
(* had at least one scanned non-null cell and every scanned non-null cell  *)
(* parsed as a number; then min and max are the smallest and largest       *)
(* parsed values (so min <= max); a "text_or_mixed" column has neither min *)
(* nor max.  float() parses "nan", which is neither below nor above any    *)
(* value: this statement is violated.                                      *)
C3_DescribeSummary ==
    (op = "describe" /\ pc = "done") =>
        \A c \in Range(file.header) :
            LET s == result.summary[c]
                cells == ScannedCells(c, result.sampled_rows)
                parsed == {ParseFloat(cells[q]) : q \in 1..Len(cells)}
            IN  /\ s.type \in {"numeric", "text_or_mixed"}
                /\ s.type = "numeric" <=>
                      (Len(cells) > 0 /\ \A x \in parsed : IsFloat(x))
                /\ s.type = "numeric" =>
                      /\ s.min \in parsed /\ \A x \in parsed : FloatLe(s.min, x)
                      /\ s.max \in parsed /\ \A x \in parsed : FloatLe(x, s.max)
                      /\ FloatLe(s.min, s.max)
                /\ s.type = "text_or_mixed" =>
                      s.min = NoFloat /\ s.max = NoFloat

(* C4: for every header column of describe_csv's output, nulls plus        *)
(* non_nulls equals sampled_rows, and for sample_rows >= 0 sampled_rows is *)
(* min(sample_rows, total data rows).                                      *)
C4_NullsPlusNonNulls ==
    (op = "describe" /\ pc = "done") =>
        /\ DOMAIN result.summary = Range(file.header)
        /\ \A c \in Range(file.header) :
              result.summary[c].nulls + result.summary[c].non_nulls
                  = result.sampled_rows
        /\ sample_rows >= 0 =>
              result.sampled_rows = Min(sample_rows, TotalDataRows)

(* A scan cut short by sample_rows, over a column with null and non-null   *)
(* cells.                                                                  *)
C4_Witness ==
    /\ op = "describe" /\ pc = "done"
    /\ 0 < sample_rows /\ sample_rows < TotalDataRows
    /\ \E c \in Range(file.header) :
          result.summary[c].nulls > 0 /\ result.summary[c].non_nulls > 0

(* C5: a call to filter_equals with limit <= 0 returns zero rows.  The     *)
(* first match is appended before the limit is tested: this statement is   *)
(* violated.                                                               *)
C5_NonPositiveLimit ==
    (op = "filter" /\ pc = "done" /\ limit <= 0) =>
        result.count_returned = 0 /\ result.rows = <<>>

(* C6: for every n >= 0 preview_csv returns exactly min(n, total data      *)
(* rows) rows, the first rows of the file in file order with their cells   *)
(* as they are in the file; count_returned is the number of rows returned  *)
(* and the header columns are returned, also when there is no data row.    *)
C6_PreviewPrefix ==
    (op = "preview" /\ pc = "done" /\ n >= 0) =>
        LET lines == SelectSeq(file.lines, LAMBDA l : l # <<>>)
        IN  /\ Len(result.rows) = Min(n, TotalDataRows)
            /\ result.count_returned = Len(result.rows)
            /\ result.columns = file.header
            /\ \A q \in 1..Len(result.rows) :
                  /\ result.rows[q] = Records(file)[q]
                  /\ \A p \in 1..Min(Len(file.header), Len(lines[q])) :
                        result.rows[q].fields[file.header[p]] = lines[q][p]

(* A preview cut short by n. *)
C6_Witness ==
    /\ op = "preview" /\ pc = "done"
    /\ 0 < n /\ n < TotalDataRows
    /\ result.count_returned = n

(* C7: when the target column is not in the header of the file,            *)
(* filter_equals fails with InvalidArgument and a message that lists the   *)
(* columns, before any record is pulled and without a result.              *)
C7_UnknownColumn ==
    (op = "filter" /\ FileOk(filename) /\ column \notin Range(file.header)) =>
        /\ pulled = 0 /\ out_rows = <<>> /\ result = NoResult
        /\ \/ pc \in {"validate", "open"}
           \/ pc = "raised" /\ error = InvalidArgument /\ errcols = file.header

(* The column is missing from a file that has data rows. *)
C7_Witness ==
    /\ op = "filter" /\ pc = "raised" /\ error = InvalidArgument
    /\ column \notin Range(file.header)
    /\ TotalDataRows > 0

(* C8: no tool opens a file whose resolved path is outside the data root.  *)
(* A path that does not exist or is not a regular file fails with          *)
(* NotFound, and an existing regular file outside the data root fails with *)
(* AccessDenied (the checks are made in this order); both fail before the  *)
(* file is opened and without a result.                                    *)
C8_PathBoundary ==
    LET path == Resolve(filename)
    IN  /\ opened => FileOk(filename)
        /\ (pc \notin {"idle", "validate"} /\ ~FileOk(filename)) =>
              /\ pc = "raised" /\ ~opened /\ result = NoResult
              /\ error = IF ~path.exists \/ ~path.is_file
                         THEN NotFound ELSE AccessDenied

(* An existing file outside the data root was refused. *)
C8_Witness ==
    /\ pc = "raised" /\ error = AccessDenied /\ ~opened
    /\ Resolve(filename).exists /\ ~Resolve(filename).in_data_dir

(* The state half of C9: for every column's accumulator, min and max are   *)
(* defined if and only if a non-null cell scanned so far parsed as a       *)
(* number, in which case min <= max.                                       *)
C9_MinMaxDefined ==
    (op = "describe" /\ pc \in {"loop", "done"}) =>
        \A c \in DOMAIN stats :
            LET cells == ScannedCells(c, row_count)
                some == \E q \in 1..Len(cells) : IsFloat(ParseFloat(cells[q]))
            IN  /\ (stats[c].min # NoFloat) <=> some
                /\ (stats[c].max # NoFloat) <=> some
                /\ some => FloatLe(stats[c].min, stats[c].max)

(* C9: at every point of a describe_csv scan, for every column: once the   *)
(* numeric flag is false it stays false, and min and max are defined if    *)
(* and only if a non-null cell scanned so far parsed as a number, in which *)
(* case min <= max.  A cell "nan" parses and makes min = max = NaN, for    *)
(* which min <= max is false: this statement is violated.                  *)
C9_Accumulator ==
    [][ /\ \A c \in DOMAIN stats :
              (c \in DOMAIN stats' /\ ~stats[c].numeric) => ~stats'[c].numeric
        /\ C9_MinMaxDefined' ]_vars

(* C10: during describe_csv with sample_rows = k >= 0 the number of        *)
(* records pulled from the reader never exceeds k.  The loop pulls record  *)
(* k + 1 before it tests the index: this statement is violated.            *)
C10_PulledAtMostK ==
    (op = "describe" /\ sample_rows >= 0) => pulled <= sample_rows

(* C10 as amended: at most k records are scanned into the statistics and   *)
(* at most k + 1 are pulled from the reader; record k + 1 is pulled only   *)
(* by the iteration that breaks, and is discarded.                         *)
C10_PulledAtMostKPlusOne ==
    (op = "describe" /\ sample_rows >= 0) =>
        /\ row_count <= sample_rows
        /\ pulled <= sample_rows + 1
        /\ pulled = sample_rows + 1 => (pc = "done" /\ row_count = sample_rows)

(* The scan stopped with records left in the file. *)
C10_Witness ==
    /\ op = "describe" /\ pc = "done"
    /\ sample_rows > 0
    /\ pulled = sample_rows + 1
    /\ TotalDataRows > pulled

=============================================================================
